---- MODULE Spec2Model ----
(***************************************************************************)
(* Model of package log (src/log.go): a leveled logger over the standard   *)
(* library's log.Logger with day-based file rotation.                      *)
(*                                                                         *)
(* Goroutines calling the logging entry points are the writers; each call  *)
(* is cut into the steps between which another goroutine can be scheduled: *)
(* the read of Std with the severity filter, the unlocked comparison of    *)
(* rotate(), the locked re-check of doRotate(), Close, Rename, OpenFile,   *)
(* SetOutput, the installation of fd/timeSuffix with the deferred Unlock,  *)
(* the Output call, and the entry point's own tail (os.Exit, panic).       *)
(* The file system is a directory of names over append-only streams; file  *)
(* handles are entries of a descriptor table.                              *)
(***************************************************************************)
EXTENDS Integers, Sequences, FiniteSets, TLC

\* ------------------------------------------------------------------ bounds
MaxWriters == 2     \* goroutines that log concurrently
MaxCalls == 2       \* logging calls made in one run
MaxLevelCalls == 1  \* calls made in one run of the severity workload
MaxLoggers == 2     \* Loggers constructed in one run
MaxTime == 4        \* last instant of the wall clock
TicksPerDay == 2    \* clock instants that share one calendar day

\* --------------------------------------------------------------- constants
\* const ( Ldebug Level = iota; Linfo; Lwarn; Lerror; Lpanic; Lfatal )
Ldebug == 0
Linfo == 1
Lwarn == 2
Lerror == 3
Lpanic == 4
Lfatal == 5
\* TimeLayout = "20060102": the 8-digit day stamp; the layout's own reference
\* day is the stamp of instant 0.
TimeLayout == 20060102

\* os.Exit(code): the status the process leaves is the low 8 bits of code.
ExitStatus(code) == code % 256

Levels == Ldebug..Lfatal
Writers == 1..MaxWriters

\* var levels = []string{...}, indexed by the Level ordinal (0-based in Go).
\* A string is the sequence of its characters.
levels ==
    << <<"D", "E", "B", "U", "G">>,
       <<"I", "N", "F", "O">>,
       <<"W", "A", "R", "N">>,
       <<"E", "R", "R", "O", "R">>,
       <<"P", "A", "N", "I", "C">>,
       <<"F", "A", "T", "A", "L">> >>
LevelTag(lvl) == levels[lvl + 1]

\* time.Now().Format(TimeLayout): every instant of a day gives that day's
\* stamp, and the stamps of successive days increase (here by one, the runs
\* staying inside one month).
Format(t) == TimeLayout + (t \div TicksPerDay)

\* ---------------------------------------------------------------- state
VARIABLES
    now,        \* the wall clock, read by time.Now()
    Std,        \* var Std: the id of the process-wide default Logger
    logger,     \* the constructed Loggers: id -> fields of struct Logger
    streams,    \* append-only byte sinks (files and plain io.Writers): id -> lines
    dir,        \* the directory: file name -> stream id
    fds,        \* descriptor table: handle -> [ino, closed]
    pc,         \* each writer's position in its call
    call,       \* each writer's call frame
    exit,       \* <<>> while the process runs, <<status>> once it has exited
    nCalls,     \* calls made so far (the next message's number)
    issued,     \* history: the Output calls in order: [id, by, day, suffix], day the
                \* stamp the call last computed, suffix the Logger's timeSuffix then
    rotLog,     \* history: the renames done: [old, new, by, id], old the suffix of
                \* the archive's name, new the suffix the rotation goes on to install
    parseIn,    \* ParseLevel's argument
    parseOut    \* ParseLevel's result

vars == <<now, Std, logger, streams, dir, fds, pc, call, exit, nCalls,
          issued, rotLog, parseIn, parseOut>>

fsVars == <<streams, dir, fds>>
parseVars == <<parseIn, parseOut>>

\* ------------------------------------------------------------ file names
FileName == <<"test.log">>
\* lastName := l.fileName + "." + l.timeSuffix
LastName(fileName, suffix) == Append(fileName, suffix)

\* ----------------------------------------------------------- entry points
\* The exported methods of Logger (and the package-level functions of the
\* same names, which call them on Std): severity, rendering path, and what
\* the method does after the logging step.
EntryPointTable ==
    { <<"Fatal",   Lfatal, "log",   "exit">>,
      <<"Fatalf",  Lfatal, "logf",  "exit">>,
      <<"Fatalln", Lfatal, "logln", "exit">>,
      <<"Panic",   Lpanic, "log",   "panic">>,
      <<"Panicf",  Lpanic, "logf",  "panic">>,
      <<"Error",   Lerror, "log",   "return">>,
      <<"Errorf",  Lerror, "logf",  "return">>,
      <<"Warn",    Lwarn,  "log",   "return">>,
      <<"Warnf",   Lwarn,  "logf",  "return">>,
      <<"Debug",   Ldebug, "log",   "return">>,
      <<"Debugf",  Ldebug, "logf",  "return">>,
      <<"Info",    Linfo,  "log",   "return">>,
      <<"Infof",   Linfo,  "logf",  "return">>,
      <<"Print",   Linfo,  "log",   "return">>,
      <<"Printf",  Linfo,  "logf",  "return">>,
      <<"Println", Linfo,  "logln", "return">> }

EntryPoints == {e[1] : e \in EntryPointTable}

EntryPoint ==
    [name \in EntryPoints |->
        LET e == CHOOSE e \in EntryPointTable : e[1] = name IN
        [lvl |-> e[2], mode |-> e[3], tail |-> e[4]]]
\* The entry points the rotation workload calls.
RotationEntryPoints == {"Debug", "Info"}

\* --------------------------------------------------------------- rendering
\* fmt.Sprint(v1...) with v1[0] = levels[lvl] + " ": no separator is added
\* next to a string operand.
Sprint(lvl, msg) == <<LevelTag(lvl), " ", msg>>
\* fmt.Sprintln(v1...): a space between all operands and a final newline.
Sprintln(lvl, msg) == <<LevelTag(lvl), " ", " ", msg, "\n">>
\* levels[lvl] + " " + fmt.Sprintf(format, v...)
Sprintf(lvl, msg) == <<LevelTag(lvl), " ", msg>>

Render(mode, lvl, msg) ==
    CASE mode = "log"   -> Sprint(lvl, msg)
      [] mode = "logln" -> Sprintln(lvl, msg)
      [] mode = "logf"  -> Sprintf(lvl, msg)

\* log.Logger.Output: the header (here the date of Ldate) and the text, with a
\* newline appended when the text does not end in one.
OutputLine(t, s) ==
    [ date |-> Format(t),
      text |-> IF s[Len(s)] = "\n" THEN s ELSE Append(s, "\n") ]

\* The message a line carries (the operand before the final newline).
MsgOf(line) == line.text[Len(line.text) - 1]

\* A line left in the base file by an earlier run of the program.
OldLine == OutputLine(0 - TicksPerDay, Sprint(Linfo, "old"))

\* The text of the message of call number id.
Msg(id) == ToString(id)

\* -------------------------------------------------------------- call frames
\* The frame of a call: entry point, Logger, message number, the suffix last
\* computed, the handle opened by its rotation, the error of its rotation, and
\* two counts kept for the properties: the Output calls made (nout) and the
\* acquisitions of l.mu (locks).
NoCall == [ep |-> "", lg |-> 0, id |-> 0, suffix |-> 0, f |-> 0,
           err |-> "nil", nout |-> 0, locks |-> 0]

Lvl(w) == EntryPoint[call[w].ep].lvl
Running == exit = <<>>

\* ------------------------------------------------------------ construction
\* New(w, prefix, flag, level): the io.Writer w is handle h; the rotation fields
\* keep their zero values.
New(level, h) ==
    [level |-> level, shouldRotate |-> FALSE, timeSuffix |-> 0,
     fileName |-> <<>>, fd |-> 0, out |-> h, mu |-> 0]

\* NewRotate(fileName, prefix, flag, level) at instant t: the file is opened
\* O_CREATE|O_APPEND (handle 1) and timeSuffix is today's stamp.
NewRotate(level, t) ==
    [level |-> level, shouldRotate |-> TRUE, timeSuffix |-> Format(t),
     fileName |-> FileName, fd |-> 1, out |-> 1, mu |-> 0]

InitCommon ==
    /\ now = 0
    /\ Std = 1
    /\ fds = << [ino |-> 1, closed |-> FALSE] >>
    /\ pc = [w \in Writers |-> "idle"]
    /\ call = [w \in Writers |-> NoCall]
    /\ exit = <<>>
    /\ nCalls = 0
    /\ issued = <<>>
    /\ rotLog = <<>>
    /\ parseIn = <<>>
    /\ parseOut = [lvl |-> 0, err |-> "unset", text |-> <<>>]

\* Std = NewRotate("test.log", "", Ldefault, Linfo), on a path where there is
\* no file yet or a file holding an earlier day's line.
Init ==
    /\ InitCommon
    /\ logger = << NewRotate(Linfo, 0) >>
    /\ \E old \in {<<>>, <<OldLine>>} : streams = << old >>
    /\ dir = (FileName :> 1)

\* Any of the six levels, on a plain io.Writer or in rotation mode.
InitLevels ==
    /\ InitCommon
    /\ \E level \in Levels :
          \/ /\ logger = << New(level, 1) >>
             /\ streams = << <<>> >>
             /\ dir = <<>>
          \/ /\ logger = << NewRotate(level, 0) >>
             /\ \E old \in {<<>>, <<OldLine>>} : streams = << old >>
             /\ dir = (FileName :> 1)

\* ---------------------------------------------------------------- ParseLevel
UpperCase == <<"A", "B", "C", "D", "E", "F", "G", "H", "I", "J", "K", "L", "M",
               "N", "O", "P", "Q", "R", "S", "T", "U", "V", "W", "X", "Y", "Z">>
LowerCase == <<"a", "b", "c", "d", "e", "f", "g", "h", "i", "j", "k", "l", "m",
               "n", "o", "p", "q", "r", "s", "t", "u", "v", "w", "x", "y", "z">>

\* unicode.ToLower on one character: an upper-case letter gives its lower-case
\* letter, anything else is kept.
LowerRune(c) ==
    IF \E i \in 1..Len(UpperCase) : UpperCase[i] = c
    THEN LowerCase[CHOOSE i \in 1..Len(UpperCase) : UpperCase[i] = c]
    ELSE c

\* strings.ToLower(s)
ToLower(s) == [i \in 1..Len(s) |-> LowerRune(s[i])]

\* The switch of ParseLevel on the string key; lvl is the argument, which the
\* error of the default case quotes (fmt.Errorf("invalid log Level: %q", lvl))
\* beside the zero Level.
ParseSwitch(key, lvl) ==
    CASE key = <<"p", "a", "n", "i", "c">> -> [lvl |-> Lpanic, err |-> "nil", text |-> <<>>]
      [] key = <<"f", "a", "t", "a", "l">> -> [lvl |-> Lfatal, err |-> "nil", text |-> <<>>]
      [] key = <<"e", "r", "r", "o", "r">> -> [lvl |-> Lerror, err |-> "nil", text |-> <<>>]
      [] key = <<"w", "a", "r", "n">>      -> [lvl |-> Lwarn, err |-> "nil", text |-> <<>>]
      [] key = <<"i", "n", "f", "o">>      -> [lvl |-> Linfo, err |-> "nil", text |-> <<>>]
      [] key = <<"d", "e", "b", "u", "g">> -> [lvl |-> Ldebug, err |-> "nil", text |-> <<>>]
      [] OTHER -> [lvl |-> 0, err |-> "invalid log Level", text |-> lvl]

\* Faulty variant of ParseLevel: the switch is on the argument as given.
ParseLevelExact(lvl) == ParseSwitch(lvl, lvl)

\* func ParseLevel(lvl string) (Level, error): switch strings.ToLower(lvl)
ParseLevel(lvl) == ParseSwitch(ToLower(lvl), lvl)

\* Every spelling of tag t in upper- and lower-case letters.
CaseVariants(t) ==
    LET Pow2[n \in 0..Len(t)] == IF n = 0 THEN 1 ELSE 2 * Pow2[n - 1] IN
    { [i \in 1..Len(t) |-> IF (mask \div Pow2[i - 1]) % 2 = 1
                            THEN t[i] ELSE LowerRune(t[i])] :
      mask \in 0..(Pow2[Len(t)] - 1) }

\* Texts that name no level.
OtherTexts ==
    { <<>>,
      <<"w", "a", "r", "n", "i", "n", "g">>,
      <<"W", "A", "R">>,
      <<"i", "n", "f">>,
      <<"t", "r", "a", "c", "e">>,
      <<"I", "N", "F", "O", " ">>,
      <<" ", "d", "e", "b", "u", "g">>,
      <<"F", "A", "T", "A", "L", "!">>,
      <<"3">> }

ParseInputs == UNION {CaseVariants(levels[k]) : k \in 1..Len(levels)} \cup OtherTexts

\* One call of ParseLevel on a text of the configuration.
ParseStep ==
    /\ \E s \in ParseInputs :
          /\ parseIn' = s
          /\ parseOut' = ParseLevel(s)
    /\ UNCHANGED <<now, Std, logger, fsVars, pc, call, exit, nCalls, issued,
                   rotLog>>

\* var Std = New(os.Stderr, "", Ldefault, Ldebug), before any text is parsed.
InitParse ==
    /\ InitCommon
    /\ logger = << New(Ldebug, 1) >>
    /\ streams = << <<>> >>
    /\ dir = <<>>

SpecParse == InitParse /\ [][ParseStep]_vars

\* ---------------------------------------------------------------- the clock
Tick ==
    /\ Running
    /\ now < MaxTime
    /\ now' = now + 1
    /\ UNCHANGED <<Std, logger, fsVars, pc, call, exit, nCalls, issued, rotLog,
                   parseVars>>

\* ------------------------------------------------------------ a logging call
\* Faulty variant of FilterNext: the comparison is turned round.
FilterNextInverted(lvl, lg) ==
    IF lvl > lg.level THEN "tail"
    ELSE IF lg.shouldRotate THEN "rotate" ELSE "output"

\* Faulty variant of FilterNext: a message at the minimum severity is dropped too.
FilterNextAtOrBelow(lvl, lg) ==
    IF lvl <= lg.level THEN "tail"
    ELSE IF lg.shouldRotate THEN "rotate" ELSE "output"

\* Faulty variant of FilterNext: nothing is filtered.
FilterNextNever(lvl, lg) ==
    IF lg.shouldRotate THEN "rotate" ELSE "output"

\* Faulty variant of FilterNext: the rotation check comes before the filter.
FilterNextRotateFirst(lvl, lg) ==
    IF lg.shouldRotate THEN "rotate"
    ELSE IF lvl < lg.level THEN "tail" ELSE "output"

\* if lvl < l.level { return }; then if l.shouldRotate the rotation check.
FilterNext(lvl, lg) ==
    IF lvl < lg.level THEN "tail"
    ELSE IF lg.shouldRotate THEN "rotate" ELSE "output"

\* Faulty variant of DefaultLogger: the functions stay bound to the first default.
DefaultLoggerFirst ==
    CHOOSE l \in DOMAIN logger : \A k \in DOMAIN logger : l <= k

\* func Info(v ...interface{}) { Std.Info(v...) }, and so on: the Logger a
\* package-level function calls is the value of Std when it is called.
DefaultLogger == Std

\* A goroutine calls entry point ep: the package-level function reads Std and
\* calls the method on it, which enters log/logln/logf and applies the filter
\* (level and shouldRotate are never written after construction, so reading
\* them is one step with the read of Std).
Call(w, ep, limit) ==
    /\ Running
    /\ pc[w] = "idle"
    /\ nCalls < limit
    /\ nCalls' = nCalls + 1
    /\ call' = [call EXCEPT ![w] = [NoCall EXCEPT !.ep = ep, !.lg = DefaultLogger,
                                                   !.id = nCalls + 1]]
    /\ pc' = [pc EXCEPT ![w] =
                 FilterNext(EntryPoint[ep].lvl, logger[DefaultLogger])]
    /\ UNCHANGED <<now, Std, logger, fsVars, exit, issued, rotLog, parseVars>>

\* Faulty variant of RotateNext: the check is skipped and the call goes on to write.
RotateNextSkip(suffix, timeSuffix) == "output"

\* rotate(): suffix := time.Now().Format(TimeLayout); doRotate only when it
\* differs from l.timeSuffix. The read is not under the lock and races with
\* the assignment in doRotate: it yields the value before or after that
\* assignment (both stamps are 8 bytes long), which is this step taken before
\* or after Install.
RotateNext(suffix, timeSuffix) ==
    IF suffix # timeSuffix THEN "doRotate" ELSE "output"

Rotate(w) ==
    /\ Running
    /\ pc[w] = "rotate"
    /\ call' = [call EXCEPT ![w].suffix = Format(now)]
    /\ pc' = [pc EXCEPT ![w] =
                 RotateNext(Format(now), logger[call[w].lg].timeSuffix)]
    /\ UNCHANGED <<now, Std, logger, fsVars, exit, nCalls, issued, rotLog,
                   parseVars>>

\* Faulty variant of Recheck: the comparison under the lock is left out.
RecheckNever(suffix, timeSuffix) == FALSE

\* doRotate(), entry: l.mu.Lock(); the suffix is read again and compared again;
\* when it is current the deferred Unlock runs and nil is returned.
Recheck(suffix, timeSuffix) == suffix = timeSuffix

\* Faulty variant of Lockable: Lock returns whoever holds the mutex.
LockableAlways(l) == TRUE

\* l.mu.Lock() returns only when no goroutine holds the mutex (mu is the
\* holder, 0 for none).
Lockable(l) == l.mu = 0

\* l.mu.Lock() by goroutine w.
Lock(l, w) == [l EXCEPT !.mu = w]

\* Faulty variant of Unlock: the mutex stays with its holder.
UnlockForgotten(l) == l

\* defer l.mu.Unlock(), run when doRotate returns.
Unlock(l) == [l EXCEPT !.mu = 0]

\* Faulty variant of SuffixUnderLock: the suffix computed by rotate() is used.
SuffixSeenBefore(t, seen) == seen

\* suffix := time.Now().Format(TimeLayout) in doRotate: the clock is read again
\* under the lock; the suffix rotate() computed (seen) is not passed on.
SuffixUnderLock(t, seen) == Format(t)

DoRotate(w) ==
    LET l == call[w].lg
        suffix == SuffixUnderLock(now, call[w].suffix) IN
    /\ Running
    /\ pc[w] = "doRotate"
    /\ Lockable(logger[l])
    /\ IF Recheck(suffix, logger[l].timeSuffix)
       THEN /\ pc' = [pc EXCEPT ![w] = "output"]
            /\ logger' = [logger EXCEPT ![l] = Unlock(Lock(@, w))]
       ELSE /\ logger' = [logger EXCEPT ![l] = Lock(@, w)]
            /\ pc' = [pc EXCEPT ![w] = "close"]
    /\ call' = [call EXCEPT ![w].suffix = suffix, ![w].locks = @ + 1]
    /\ UNCHANGED <<now, Std, fsVars, exit, nCalls, issued, rotLog, parseVars>>

\* Faulty variant of ReturnErr: the error return leaves the lock held.
ReturnErrLocked(w, what) ==
    /\ logger' = logger
    /\ call' = [call EXCEPT ![w].err = what]
    /\ pc' = [pc EXCEPT ![w] = "rotfail"]

\* A step of doRotate returns err: the deferred Unlock runs, and the caller
\* goes on to log.Fatal("log rotate failed.", err).
ReturnErr(w, what) ==
    /\ logger' = [logger EXCEPT ![call[w].lg].mu = 0]
    /\ call' = [call EXCEPT ![w].err = what]
    /\ pc' = [pc EXCEPT ![w] = "rotfail"]

\* l.fd.Close(): the handle is closed whether or not Close reports an error.
Close(w) ==
    LET l == call[w].lg IN
    /\ Running
    /\ pc[w] = "close"
    /\ fds' = [fds EXCEPT ![logger[l].fd].closed = TRUE]
    /\ \/ /\ ~fds[logger[l].fd].closed
          /\ pc' = [pc EXCEPT ![w] = "rename"]
          /\ UNCHANGED <<logger, call>>
       \/ ReturnErr(w, "close")
    /\ UNCHANGED <<now, Std, streams, dir, exit, nCalls, issued, rotLog,
                   parseVars>>

\* os.Rename(old, new): new names what old named (replacing what it named).
RenameDir(d, old, new) ==
    [n \in (DOMAIN d \ {old}) \cup {new} |-> IF n = new THEN d[old] ELSE d[n]]

\* Faulty variant of ArchiveSuffix: the archive is named after the day just read.
ArchiveSuffixNew(l, suffix) == suffix

\* lastName := l.fileName + "." + l.timeSuffix; os.Rename(l.fileName, lastName)
ArchiveSuffix(l, suffix) == l.timeSuffix

Rename(w) ==
    LET l == logger[call[w].lg]
        lastName == LastName(l.fileName, ArchiveSuffix(l, call[w].suffix)) IN
    /\ Running
    /\ pc[w] = "rename"
    /\ \/ /\ l.fileName \in DOMAIN dir
          /\ dir' = RenameDir(dir, l.fileName, lastName)
          /\ rotLog' = Append(rotLog, [old |-> ArchiveSuffix(l, call[w].suffix),
                                       new |-> call[w].suffix, by |-> w,
                                       id |-> call[w].id])
          /\ pc' = [pc EXCEPT ![w] = "open"]
          /\ UNCHANGED <<logger, call>>
       \/ /\ ReturnErr(w, "rename")
          /\ UNCHANGED <<dir, rotLog>>
    /\ UNCHANGED <<now, Std, streams, fds, exit, nCalls, issued, parseVars>>

\* os.OpenFile(l.fileName, O_CREATE|O_APPEND|O_RDWR, 0666): the file of that
\* name, created empty when there is none, through a new handle.
Open(w) ==
    LET l == logger[call[w].lg]
        exists == l.fileName \in DOMAIN dir
        ino == IF exists THEN dir[l.fileName] ELSE Len(streams) + 1 IN
    /\ Running
    /\ pc[w] = "open"
    /\ \/ /\ streams' = IF exists THEN streams ELSE Append(streams, <<>>)
          /\ dir' = IF exists THEN dir ELSE (l.fileName :> ino) @@ dir
          /\ fds' = Append(fds, [ino |-> ino, closed |-> FALSE])
          /\ call' = [call EXCEPT ![w].f = Len(fds) + 1]
          /\ pc' = [pc EXCEPT ![w] = "setOutput"]
          /\ UNCHANGED logger
       \/ /\ ReturnErr(w, "open")
          /\ UNCHANGED fsVars
    /\ UNCHANGED <<now, Std, exit, nCalls, issued, rotLog, parseVars>>

\* l.logger.SetOutput(f)
SetOutput(w) ==
    /\ Running
    /\ pc[w] = "setOutput"
    /\ logger' = [logger EXCEPT ![call[w].lg].out = call[w].f]
    /\ pc' = [pc EXCEPT ![w] = "install"]
    /\ UNCHANGED <<now, Std, fsVars, call, exit, nCalls, issued, rotLog,
                   parseVars>>

\* Faulty variant of Installed: the new handle is not recorded as fd.
InstalledKeepFd(l, f, suffix) == [l EXCEPT !.timeSuffix = suffix, !.mu = 0]

\* Faulty variant of Installed: timeSuffix advances by one day only.
InstalledNextDay(l, f, suffix) ==
    [l EXCEPT !.fd = f, !.timeSuffix = @ + 1, !.mu = 0]

\* Faulty variant of Installed: the successful return leaves the lock held.
InstalledLocked(l, f, suffix) == [l EXCEPT !.fd = f, !.timeSuffix = suffix]

\* l.fd = f; l.timeSuffix = suffix; return nil (the deferred Unlock runs).
Installed(l, f, suffix) == [l EXCEPT !.fd = f, !.timeSuffix = suffix, !.mu = 0]

Install(w) ==
    /\ Running
    /\ pc[w] = "install"
    /\ logger' = [logger EXCEPT ![call[w].lg] =
                                   Installed(@, call[w].f, call[w].suffix)]
    /\ pc' = [pc EXCEPT ![w] = "output"]
    /\ UNCHANGED <<now, Std, fsVars, call, exit, nCalls, issued, rotLog,
                   parseVars>>

\* if err := l.rotate(); err != nil { log.Fatal("log rotate failed.", err) }
RotFail(w) ==
    /\ Running
    /\ pc[w] = "rotfail"
    /\ exit' = <<ExitStatus(1)>>
    /\ UNCHANGED <<now, Std, logger, fsVars, pc, call, nCalls, issued, rotLog,
                   parseVars>>

\* Write on a handle: appended to its file as one unit (O_APPEND), or refused
\* with "file already closed", which Output's caller drops.
WriteTo(h, line) ==
    IF fds[h].closed THEN streams
    ELSE [streams EXCEPT ![fds[h].ino] = Append(@, line)]

\* l.logger.Output(4, s): the rendered text goes to the log.Logger's current
\* output under the log.Logger's own mutex (one step against SetOutput).
Output(w) ==
    LET l == logger[call[w].lg]
        ep == EntryPoint[call[w].ep]
        line == OutputLine(now, Render(ep.mode, ep.lvl, Msg(call[w].id))) IN
    /\ Running
    /\ pc[w] = "output"
    /\ streams' = WriteTo(l.out, line)
    /\ call' = [call EXCEPT ![w].nout = @ + 1]
    /\ issued' = Append(issued, [id |-> call[w].id, by |-> w,
                                 day |-> call[w].suffix,
                                 suffix |-> l.timeSuffix])
    /\ pc' = [pc EXCEPT ![w] = "tail"]
    /\ UNCHANGED <<now, Std, logger, dir, fds, exit, nCalls, rotLog, parseVars>>

\* The rest of the entry point after log/logln/logf has returned:
\* os.Exit(-1) in Fatal*, panic(...) in Panic*, nothing in the others.
Finish(w) ==
    LET tail == EntryPoint[call[w].ep].tail IN
    /\ Running
    /\ pc[w] = "tail"
    /\ CASE tail = "exit" ->
              /\ exit' = <<ExitStatus(-1)>>
              /\ UNCHANGED <<pc, call>>
         [] tail = "panic" ->
              /\ pc' = [pc EXCEPT ![w] = "panicked"]
              /\ UNCHANGED <<exit, call>>
         [] tail = "return" ->
              /\ pc' = [pc EXCEPT ![w] = "idle"]
              /\ call' = [call EXCEPT ![w] = NoCall]
              /\ UNCHANGED exit
    /\ UNCHANGED <<now, Std, logger, fsVars, nCalls, issued, rotLog, parseVars>>

\* Std = New(w, prefix, flag, level): the default Logger is replaced by a new
\* one on a writer of its own.
ReplaceStd(level) ==
    /\ Running
    /\ Len(logger) < MaxLoggers
    /\ streams' = Append(streams, <<>>)
    /\ fds' = Append(fds, [ino |-> Len(streams) + 1, closed |-> FALSE])
    /\ logger' = Append(logger, New(level, Len(fds) + 1))
    /\ Std' = Len(logger) + 1
    /\ UNCHANGED <<now, dir, pc, call, exit, nCalls, issued, rotLog, parseVars>>

\* ------------------------------------------------------------ specification
Step(w) ==
    \/ Rotate(w)
    \/ DoRotate(w)
    \/ Close(w)
    \/ Rename(w)
    \/ Open(w)
    \/ SetOutput(w)
    \/ Install(w)
    \/ RotFail(w)
    \/ Output(w)
    \/ Finish(w)

Next ==
    \/ Tick
    \/ \E w \in Writers, ep \in RotationEntryPoints : Call(w, ep, MaxCalls)
    \/ \E w \in Writers : Step(w)

Spec == Init /\ [][Next]_vars

\* Scheduling: a goroutine that can take its next step is eventually run
\* (the Go scheduler preempts running goroutines), and a goroutine blocked in
\* l.mu.Lock() gets the mutex when it is free again and again (sync.Mutex
\* hands the lock to a starving waiter).
Fairness ==
    \A w \in Writers : WF_vars(Step(w)) /\ SF_vars(DoRotate(w))

\* The rotation workload under fair scheduling: two goroutines call Info on
\* the shared Logger.
FairWriters == {1, 2}
FairEntryPoints == {"Info"}

NextFair ==
    \/ Tick
    \/ \E w \in FairWriters, ep \in FairEntryPoints : Call(w, ep, MaxCalls)
    \/ \E w \in Writers : Step(w)

SpecFair == Init /\ [][NextFair]_vars /\ Fairness

\* The severity workload: one goroutine calls any entry point on a Logger of
\* any minimum severity.
LevelWriters == {1}

NextLevels ==
    \/ Tick
    \/ \E w \in LevelWriters, ep \in EntryPoints : Call(w, ep, MaxLevelCalls)
    \/ \E w \in Writers : Step(w)

SpecLevels == InitLevels /\ [][NextLevels]_vars

\* The default-Logger workload: one goroutine logs through package-level
\* functions while another replaces Std.
StdEntryPoints == {"Debug", "Warnf", "Println"}

NextStd ==
    \/ Tick
    \/ \E level \in Levels : ReplaceStd(level)
    \/ \E w \in LevelWriters, ep \in StdEntryPoints : Call(w, ep, MaxLevelCalls)
    \/ \E w \in Writers : Step(w)

SpecStd == InitLevels /\ [][NextStd]_vars

\* ================================================================== claims
\* The messages of a sequence of lines.
Msgs(st) == [i \in 1..Len(st) |-> MsgOf(st[i])]

\* How many lines of the files in the directory carry message m.
Occurrences(m) ==
    Cardinality(UNION {{<<n, i>> : i \in {j \in 1..Len(streams[dir[n]]) :
                                            MsgOf(streams[dir[n]][j]) = m}} :
                       n \in DOMAIN dir})

\* How many lines of all streams carry message m.
Written(m) ==
    Cardinality(UNION {{<<k, i>> : i \in {j \in 1..Len(streams[k]) :
                                            MsgOf(streams[k][j]) = m}} :
                       k \in 1..Len(streams)})

\* The messages written while the Logger's timeSuffix was d, in order.
EpochMsgs(d) ==
    LET sel == SelectSeq(issued, LAMBDA r : r.suffix = d) IN
    [i \in 1..Len(sel) |-> Msg(sel[i].id)]

\* What file n held before the Logger was constructed: only the file opened
\* by NewRotate (stream 1) can hold anything from before.
HeldBefore(n) ==
    IF dir[n] = 1
    THEN Msgs(SelectSeq(streams[1], LAMBDA ln : MsgOf(ln) = MsgOf(OldLine)))
    ELSE <<>>

\* The day a file of the directory stands for: its name's suffix, and for the
\* base file the Logger's timeSuffix.
DayOfFile(n) == IF n = FileName THEN logger[1].timeSuffix ELSE n[Len(n)]

\* Only writer w has logged or rotated, and it is between steps of no call.
OnlyWriter(w) ==
    /\ \A v \in Writers \ {w} : pc[v] = "idle"
    /\ \A i \in 1..Len(issued) : issued[i].by = w
    /\ \A i \in 1..Len(rotLog) : rotLog[i].by = w
    /\ pc[w] \in {"idle", "tail"}

\* C2 (as claimed): every line that passed the severity filter and was handed
\* to Output is exactly once in the archive or the base file, whatever the
\* interleaving of its write with a rotation.
C2_EveryLineExactlyOnce ==
    \A i \in 1..Len(issued) : Occurrences(Msg(issued[i].id)) = 1

\* C3 (as claimed): with a single writer that has rotated, the archive
\* <path>.<d> holds exactly the lines logged while the suffix was d, in order,
\* and the base file exactly the lines logged since.
C3_Original ==
    \A w \in Writers : (OnlyWriter(w) /\ Len(rotLog) > 0) =>
        \A n \in DOMAIN dir : Msgs(streams[dir[n]]) = EpochMsgs(DayOfFile(n))

\* C3 (amended): with a single writer, each file holds what it held before the
\* Logger was constructed followed by exactly the lines logged while the
\* suffix was the file's day, in order; every line is written while the suffix
\* is the day its call read (so the line of the call that rotates is in the new
\* base file); and every day rotated away has its archive.
C3_ArchiveAndBaseContents ==
    \A w \in Writers : OnlyWriter(w) =>
        /\ FileName \in DOMAIN dir
        /\ \A n \in DOMAIN dir :
              Msgs(streams[dir[n]]) = HeldBefore(n) \o EpochMsgs(DayOfFile(n))
        /\ \A i \in 1..Len(issued) : issued[i].suffix = issued[i].day
        /\ \A i \in 1..Len(rotLog) :
              LastName(FileName, rotLog[i].old) \in DOMAIN dir

\* C3's case: one writer has logged a line, rotated on a later call and logged
\* that call's line, on a file that held a line before.
C3_Witness ==
    /\ OnlyWriter(1)
    /\ pc[1] = "idle"
    /\ Len(rotLog) = 1
    /\ Len(issued) = 2
    /\ issued[1].suffix # issued[2].suffix
    /\ Len(streams[1]) = 2
    /\ Len(streams[dir[FileName]]) = 1

\* C4 (as claimed): every archive is named after the day immediately before
\* the day the rotation installs.
C4_Original ==
    \A i \in 1..Len(rotLog) : rotLog[i].old + 1 = rotLog[i].new

\* C4 (amended): every archive is named after the suffix the Logger held when
\* the rotation began (the day of its construction or of its last rotation),
\* which is an earlier day than the one the rotation installs, and never that
\* new day; the directory holds exactly these archives.
C4_ArchiveNamedByOldSuffix ==
    /\ \A i \in 1..Len(rotLog) :
          /\ rotLog[i].old = IF i = 1 THEN Format(0) ELSE rotLog[i - 1].new
          /\ rotLog[i].old < rotLog[i].new
    /\ DOMAIN dir \ {FileName}
          = {LastName(FileName, rotLog[i].old) : i \in 1..Len(rotLog)}

\* C4's case: a rotation after a whole day without a call, archived under the
\* old suffix.
C4_Witness ==
    /\ Len(rotLog) = 1
    /\ rotLog[1].new = rotLog[1].old + 2
    /\ LastName(FileName, Format(0)) \in DOMAIN dir

\* C7: no two rotations install the same day, and a rotation check made while
\* timeSuffix is today's stamp goes straight on to the write: no lock, no
\* close, rename or open, and fd, the output and timeSuffix stay as they are.
C7_RotationIdempotent ==
    /\ [](\A i, j \in 1..Len(rotLog) : rotLog[i].new = rotLog[j].new => i = j)
    /\ [][\A w \in Writers :
            (/\ pc[w] = "rotate"
             /\ pc'[w] # "rotate"
             /\ logger[call[w].lg].timeSuffix = Format(now))
            => /\ pc'[w] = "output"
               /\ UNCHANGED <<logger, fsVars, rotLog>>]_vars

\* C7's case: the writer that rotated checks again on the same day and is at
\* its write with one rotation done.
C7_Witness ==
    \E w \in Writers :
        /\ Len(rotLog) = 1
        /\ rotLog[1].by = w
        /\ call[w].id > rotLog[1].id
        /\ pc[w] = "output"
        /\ logger[1].timeSuffix = Format(now)

\* C8: a call whose rotation step failed has released the lock, has written
\* nothing and never will (its only step is the exit of log.Fatal, status 1);
\* and timeSuffix changes only in the step that also installs the newly
\* opened base file as fd and output and releases the lock.
C8_RotationFailureIsFatal ==
    /\ [](\A w \in Writers : call[w].err # "nil" =>
            /\ pc[w] = "rotfail"
            /\ call[w].nout = 0
            /\ \A i \in 1..Len(issued) : issued[i].id # call[w].id
            /\ logger[call[w].lg].mu # w
            /\ Running => ENABLED RotFail(w))
    /\ [](exit = <<ExitStatus(1)>> => \E w \in Writers : call[w].err # "nil")
    /\ [][\A w \in Writers : call[w].err # "nil" =>
            /\ call'[w] = call[w]
            /\ pc'[w] = pc[w]
            /\ (exit' # exit => exit' = <<ExitStatus(1)>>)]_vars
    /\ [][logger'[1].timeSuffix # logger[1].timeSuffix =>
            /\ logger'[1].fd = logger'[1].out
            /\ ~fds'[logger'[1].out].closed
            /\ FileName \in DOMAIN dir'
            /\ dir'[FileName] = fds'[logger'[1].out].ino
            /\ logger'[1].mu = 0]_vars

\* C8's case: Rename failed in a rotation and the process has exited.
C8_Witness ==
    \E w \in Writers :
        /\ call[w].err = "rename"
        /\ exit = <<ExitStatus(1)>>
        /\ logger[1].mu = 0

\* Writer w is inside a call.
InCall(w) == call[w].ep # ""
\* The call of w is at or above its Logger's minimum severity.
Passes(w) == Lvl(w) >= logger[call[w].lg].level
\* log/logln/logf has returned in the call of w.
Returned(w) == pc[w] \in {"tail", "panicked"}

\* The lines of all streams that carry message m.
LinesOf(m) ==
    UNION {{streams[k][j] : j \in {i \in 1..Len(streams[k]) :
                                      MsgOf(streams[k][i]) = m}} :
           k \in 1..Len(streams)}

\* C1: a logging call hands exactly one line to its Logger's output when its
\* severity is at least the minimum and none when it is below: before
\* log/logln/logf returns nothing below the minimum is in flight, after it
\* returns the Output count is 1 or 0 accordingly; the line carries the
\* severity's tag and is in the output once (on a plain writer always, in
\* rotation mode unless the handle was closed under it, which is C2).
C1_EmitsIffAtLeastMinimum ==
    \A w \in Writers : InCall(w) =>
        /\ Returned(w) => call[w].nout = IF Passes(w) THEN 1 ELSE 0
        /\ ~Returned(w) => (Passes(w) /\ call[w].nout = 0)
        /\ Written(Msg(call[w].id)) <= call[w].nout
        /\ ~logger[call[w].lg].shouldRotate =>
              Written(Msg(call[w].id)) = call[w].nout
        /\ \A ln \in LinesOf(Msg(call[w].id)) : ln.text[1] = LevelTag(Lvl(w))

\* C1's case: a message at exactly the minimum severity (warn on warn) has
\* been written once.
C1_Witness ==
    \E w \in Writers :
        /\ pc[w] = "tail"
        /\ Lvl(w) = Lwarn
        /\ logger[call[w].lg].level = Lwarn
        /\ call[w].nout = 1
        /\ Written(Msg(call[w].id)) = 1

\* The call of w is Fatal, Fatalf or Fatalln.
IsFatalCall(w) == InCall(w) /\ EntryPoint[call[w].ep].tail = "exit"
\* The call of w is Panic or Panicf.
IsPanicCall(w) == InCall(w) /\ EntryPoint[call[w].ep].tail = "panic"

\* C5: whatever the minimum severity, a Fatal/Fatalf/Fatalln call passes the
\* filter; when its logging step has returned the line has been handed to
\* Output once; the call never returns to its caller; the status of os.Exit(-1)
\* is only ever left by such a call after its write, and every exit status is
\* non-zero.
C5_FatalWritesThenExits ==
    /\ [](\A w \in Writers : IsFatalCall(w) =>
            /\ Passes(w)
            /\ pc[w] = "tail" => call[w].nout = 1
            /\ (pc[w] = "tail" /\ ~logger[call[w].lg].shouldRotate) =>
                  Written(Msg(call[w].id)) = 1)
    /\ [](exit = <<ExitStatus(-1)>> =>
            \E w \in Writers :
                IsFatalCall(w) /\ pc[w] = "tail" /\ call[w].nout = 1)
    /\ [](exit # <<>> => exit[1] # 0)
    /\ [][\A w \in Writers : (IsFatalCall(w) /\ pc[w] = "tail") =>
            (pc'[w] = "tail" /\ call'[w] = call[w])]_vars

\* C5's case: the minimum severity is fatal and a fatal call has written its
\* line and ended the process.
C5_Witness ==
    \E w \in Writers :
        /\ IsFatalCall(w)
        /\ logger[call[w].lg].level = Lfatal
        /\ call[w].nout = 1
        /\ Written(Msg(call[w].id)) = 1
        /\ exit = <<ExitStatus(-1)>>

\* C6 (as claimed): under every minimum severity a Panic/Panicf call that has
\* raised has written its line.
C6_Original ==
    \A w \in Writers :
        (IsPanicCall(w) /\ pc[w] = "panicked") => call[w].nout = 1

\* C6 (amended): a Panic/Panicf call always raises once its logging step has
\* returned, and it has written its line exactly when the minimum severity is
\* at most panic: under minimum severity fatal it raises with nothing written.
C6_PanicRaisesWritesUnlessFiltered ==
    /\ [](\A w \in Writers : (IsPanicCall(w) /\ Returned(w)) =>
            call[w].nout = IF logger[call[w].lg].level <= Lpanic THEN 1 ELSE 0)
    /\ [](\A w \in Writers : pc[w] = "panicked" => IsPanicCall(w))
    /\ [][\A w \in Writers : (IsPanicCall(w) /\ pc[w] = "tail") =>
            (pc'[w] \in {"tail", "panicked"} /\ call'[w] = call[w])]_vars
    /\ [][\A w \in Writers : pc[w] = "panicked" => pc'[w] = "panicked"]_vars

\* C6's case: minimum severity fatal, and a panic call has raised without
\* writing.
C6_Witness ==
    \E w \in Writers :
        /\ IsPanicCall(w)
        /\ pc[w] = "panicked"
        /\ logger[call[w].lg].level = Lfatal
        /\ call[w].nout = 0
        /\ Written(Msg(call[w].id)) = 0

\* The upper- and lower-case spellings that strings.ToLower maps to the
\* lower-case form of tag levels[l].
NamesLevel(s, l) == ToLower(s) = ToLower(LevelTag(l))

\* C9: ParseLevel returns l and no error for every text that is levels[l] in
\* any letter case, and the invalid-level error quoting the text as given
\* (with the zero Level) for every text whose lower-case form is no tag.
C9_ParseLevelInvertsLevels ==
    parseOut.err # "unset" =>
        /\ \A l \in Levels : NamesLevel(parseIn, l) =>
              parseOut = [lvl |-> l, err |-> "nil", text |-> <<>>]
        /\ (\A l \in Levels : ~NamesLevel(parseIn, l)) =>
              parseOut = [lvl |-> 0, err |-> "invalid log Level",
                          text |-> parseIn]

\* C9's case: a mixed-case spelling of a tag has been parsed.
C9_Witness ==
    /\ parseIn = <<"W", "a", "R", "n">>
    /\ parseOut = [lvl |-> Lwarn, err |-> "nil", text |-> <<>>]

\* The streams Logger l writes to: its output's, and in rotation mode the
\* files of its directory.
OwnStreams(l) ==
    {fds[logger[l].out].ino} \cup
    (IF logger[l].shouldRotate THEN {dir[n] : n \in DOMAIN dir} ELSE {})

\* How many lines of the streams in K carry message m.
WrittenIn(K, m) ==
    Cardinality(UNION {{<<k, i>> : i \in {j \in 1..Len(streams[k]) :
                                            MsgOf(streams[k][j]) = m}} :
                       k \in K})

\* C10: a package-level call uses the Logger that Std names when the call is
\* made, and only that one: it is filtered by that Logger's minimum severity
\* and its line is handed to that Logger's output once and is in no stream of
\* another Logger, also when Std is replaced while the call is in flight.
C10_DelegatesToDefaultAtCall ==
    /\ [][\A w \in Writers : (pc[w] = "idle" /\ pc'[w] # "idle") =>
            call'[w].lg = Std]_vars
    /\ [](\A w \in Writers : InCall(w) =>
            /\ call[w].lg \in 1..Len(logger)
            /\ Returned(w) => call[w].nout = IF Passes(w) THEN 1 ELSE 0
            /\ Written(Msg(call[w].id))
                  = WrittenIn(OwnStreams(call[w].lg), Msg(call[w].id))
            /\ Written(Msg(call[w].id)) <= call[w].nout
            /\ ~logger[call[w].lg].shouldRotate =>
                  Written(Msg(call[w].id)) = call[w].nout)

\* C10's case: Std was replaced while a call was in flight, and the call has
\* written its line through the old Logger although the new one would have
\* dropped it.
C10_Witness ==
    \E w \in Writers :
        /\ pc[w] = "tail"
        /\ call[w].lg = 1
        /\ Std = 2
        /\ call[w].nout = 1
        /\ Lvl(w) < logger[Std].level
        /\ WrittenIn(OwnStreams(1), Msg(call[w].id)) = 1
        /\ WrittenIn(OwnStreams(2), Msg(call[w].id)) = 0

\* The lines of the file at the configured path (none while the path names
\* no file).
BaseLines ==
    IF FileName \in DOMAIN dir THEN streams[dir[FileName]] ELSE <<>>

\* C11 (as claimed): in rotation mode, whenever no rotation is in progress and
\* a logging call has written, every line of the base file carries the day
\* that timeSuffix names, also when the Logger was constructed on a file that
\* already held lines of an earlier day.
C11_BaseHoldsOnlyToday ==
    (logger[1].shouldRotate /\ logger[1].mu = 0 /\ Len(issued) > 0) =>
        \A i \in 1..Len(BaseLines) : BaseLines[i].date = logger[1].timeSuffix

\* The steps of doRotate after the re-check: close, rename, open, swap.
RotationSteps == {"close", "rename", "open", "setOutput", "install"}
\* Writer w is inside the rotation action, past the re-check.
InRotation(w) == pc[w] \in RotationSteps

\* C12: of the writers that found timeSuffix stale for one day change, one
\* performs close/rename/open/swap and the others, once they have the lock,
\* find the suffix current and touch neither the files nor the Logger: at most
\* one writer is in the sequence, and it holds the lock; a writer enters the
\* sequence only on a stale suffix and leaves the re-check of a current one
\* for its write with nothing changed; a call that has been through doRotate
\* and is at its write finds exactly one rotation to its day, and never a
\* second one by itself; and the archives are one per rotation, no two for
\* the same day.
C12_OneRotationPerDayChange ==
    /\ [](\A v, w \in Writers : (InRotation(v) /\ InRotation(w)) => v = w)
    /\ [](\A w \in Writers : InRotation(w) => logger[call[w].lg].mu = w)
    /\ [](\A i, j \in 1..Len(rotLog) :
            (rotLog[i].new = rotLog[j].new \/ rotLog[i].old = rotLog[j].old)
            => i = j)
    /\ [](Cardinality(DOMAIN dir \ {FileName}) = Len(rotLog))
    /\ [](\A w \in Writers :
            (call[w].locks > 0 /\ pc[w] \in {"output", "tail"}) =>
                /\ call[w].locks = 1
                /\ Cardinality({i \in 1..Len(rotLog) :
                                   rotLog[i].new = call[w].suffix}) = 1)
    /\ [][\A w \in Writers : (pc[w] = "doRotate" /\ pc'[w] # "doRotate") =>
            IF logger[call[w].lg].timeSuffix = Format(now)
            THEN pc'[w] = "output" /\ UNCHANGED <<logger, fsVars, rotLog>>
            ELSE pc'[w] = "close" /\ logger'[call[w].lg].mu = w]_vars

\* C12's case: both writers found the suffix stale for the same day change;
\* one has rotated, the other has been through the lock and the re-check and
\* is at its write, with one archive in the directory.
C12_Witness ==
    \E v, w \in Writers :
        /\ v # w
        /\ Len(rotLog) = 1
        /\ rotLog[1].by = v
        /\ call[v].locks = 1
        /\ pc[v] \in {"output", "tail"}
        /\ call[w].locks = 1
        /\ pc[w] = "output"
        /\ call[w].suffix = rotLog[1].new
        /\ Cardinality(DOMAIN dir) = 2

\* C13 (as claimed): no writer issues its write to a handle that has been
\* closed: whenever a call's Output step is taken, the output of its Logger
\* is an open handle, also while another writer is inside doRotate.
C13_NeverWritesToClosedHandle ==
    [][\A w \in Writers : (pc[w] = "output" /\ pc'[w] = "tail") =>
          ~fds[logger[call[w].lg].out].closed]_vars

\* No step of a rotation has returned an error.
NoRotationFailed == \A w \in Writers : call[w].err = "nil"

\* The day the file at the configured path was opened for: the day of
\* construction, or the day read by the rotation that last renamed it away.
OpenedFor == IF rotLog = <<>> THEN Format(0) ELSE rotLog[Len(rotLog)].new

\* fd, the output and timeSuffix of Logger l are in step: fd is the output,
\* it is an open handle on the file the configured path names, and timeSuffix
\* is the day that file was opened for.
InStep(l) ==
    /\ l.fd = l.out
    /\ ~fds[l.fd].closed
    /\ l.fileName \in DOMAIN dir
    /\ dir[l.fileName] = fds[l.fd].ino
    /\ l.timeSuffix = OpenedFor

C15_LockOnlyInRotation ==
    /\ [](\A l \in 1..Len(logger) :
            logger[l].mu # 0 =>
                /\ logger[l].mu \in Writers
                /\ InRotation(logger[l].mu)
                /\ call[logger[l].mu].lg = l)
    /\ [](\A w \in Writers :
            InRotation(w) <=> (InCall(w) /\ logger[call[w].lg].mu = w))
    /\ [](\A v, w \in Writers : (InRotation(v) /\ InRotation(w)) => v = w)
    /\ [][\A w \in Writers :
            (pc[w] \in {"idle", "rotate", "output"} /\ pc'[w] # pc[w]) =>
                \A l \in 1..Len(logger) : logger[l].mu # w /\ logger'[l].mu # w]_vars

\* C15's case: one writer holds the lock in the middle of the rotation action
\* while the other, not holding it, is at its write.
C15_Witness ==
    \E v, w \in Writers :
        /\ pc[v] = "rename"
        /\ logger[1].mu = v
        /\ pc[w] = "output"
        /\ call[w].locks = 1

\* The call of w is below its Logger's minimum severity.
Filtered(w) == InCall(w) /\ ~Passes(w)

\* A step of a call of w that is below the minimum severity.
FilteredStep(w) ==
    /\ pc'[w] # pc[w] \/ call'[w] # call[w]
    /\ Filtered(w) \/ Filtered(w)'

\* The steps of calls below the minimum severity change neither a Logger
\* (timeSuffix, fd, output, lock), nor the files and handles, nor the
\* histories of renames and writes, and do not end the process.
FilteredFrame ==
    \A w \in Writers :
        FilteredStep(w) => UNCHANGED <<logger, fsVars, rotLog, issued, exit>>

\* A call below the minimum severity has made no rotation check, taken no
\* lock, failed in no rotation step and written nothing.
FilteredIdle(w) ==
    /\ call[w].nout = 0
    /\ call[w].locks = 0
    /\ call[w].err = "nil"
    /\ call[w].suffix = 0
    /\ Written(Msg(call[w].id)) = 0

\* C16 (as claimed): a call below the minimum severity has no effect at all:
\* it is only ever at the point of returning to its caller, having checked,
\* locked and written nothing, and its steps change nothing.
C16_Original ==
    /\ [](\A w \in Writers : Filtered(w) => (pc[w] = "tail" /\ FilteredIdle(w)))
    /\ [][FilteredFrame]_vars

\* C16 (amended): a call below the minimum severity makes no rotation check,
\* takes no lock, closes, renames and opens nothing, writes nothing and leaves
\* timeSuffix, fd and the output as they are, also when timeSuffix is stale;
\* it then returns, except that Panic and Panicf raise their panic all the
\* same.
C16_FilteredCallOnlyReturnsOrPanics ==
    /\ [](\A w \in Writers : Filtered(w) =>
            /\ pc[w] \in {"tail", "panicked"}
            /\ pc[w] = "panicked" => IsPanicCall(w)
            /\ FilteredIdle(w))
    /\ [][FilteredFrame]_vars
    /\ [][\A w \in Writers : (Filtered(w) /\ pc[w] = "tail" /\ pc'[w] # "tail")
            => pc'[w] = IF IsPanicCall(w) THEN "panicked" ELSE "idle"]_vars

\* C16's case: on a rotation-mode Logger whose timeSuffix is stale, a call
\* below the minimum severity has gone through (here a Panic under minimum
\* severity fatal, which has raised): nothing was rotated or written.
C16_Witness ==
    \E w \in Writers :
        /\ Filtered(w)
        /\ pc[w] = "panicked"
        /\ logger[call[w].lg].shouldRotate
        /\ logger[call[w].lg].timeSuffix # Format(now)
        /\ logger[call[w].lg].mu = 0
        /\ rotLog = <<>>
        /\ issued = <<>>
        /\ DOMAIN dir = {FileName}

\* C17: timeSuffix changes only in the last step of the rotation action, by
\* the writer holding the lock, to the suffix that writer read from the clock
\* when it had taken the lock (and has kept since); the clock not going back,
\* every change is to a later day and timeSuffix is never ahead of the clock;
\* and while timeSuffix is today's stamp no writer enters the rotation action
\* and nothing is renamed.
C17_SuffixOnlyForwardByRotation ==
    /\ [][logger'[1].timeSuffix # logger[1].timeSuffix =>
            \E w \in Writers :
                /\ pc[w] = "install" /\ pc'[w] = "output"
                /\ logger[1].mu = w
                /\ logger'[1].timeSuffix = call[w].suffix
                /\ logger'[1].timeSuffix > logger[1].timeSuffix]_vars
    /\ [][\A w \in Writers : (~InRotation(w) /\ InRotation(w)') =>
            /\ logger'[1].mu = w
            /\ call'[w].suffix = Format(now)
            /\ logger[1].timeSuffix # Format(now)]_vars
    /\ [][\A w \in Writers : (InRotation(w) /\ InRotation(w)') =>
            call'[w].suffix = call[w].suffix]_vars
    /\ [][now' >= now]_vars
    /\ [](logger[1].timeSuffix <= Format(now))
    /\ [][logger[1].timeSuffix = Format(now) =>
            /\ rotLog' = rotLog
            /\ dir' = dir
            /\ \A w \in Writers : InRotation(w)' => InRotation(w)]_vars

\* C17's case: two day changes, each followed by a rotation: timeSuffix has
\* moved forward twice and is today's stamp, with the lock free.
C17_Witness ==
    /\ Len(rotLog) = 2
    /\ rotLog[1].new < rotLog[2].new
    /\ logger[1].timeSuffix = rotLog[2].new
    /\ logger[1].timeSuffix = Format(now)
    /\ logger[1].mu = 0

\* The renames done by the call with message number id.
RotationsOf(id) == {i \in 1..Len(rotLog) : rotLog[i].id = id}

\* C18: however many days timeSuffix is behind, a call rotates once: it does
\* at most one rename, and when it has rotated and is at its write, timeSuffix
\* is at least the day its rotation read (set in one step, not day by day);
\* the rename makes one archive, named after the old timeSuffix; and no
\* archive exists for a day between the old suffix and the one installed.
C18_OneRotationAcrossSkippedDays ==
    /\ [](\A w \in Writers : InCall(w) =>
            /\ Cardinality(RotationsOf(call[w].id)) <= 1
            /\ (RotationsOf(call[w].id) # {} /\ pc[w] \in {"output", "tail"}) =>
                  /\ logger[1].timeSuffix >= call[w].suffix
                  /\ \A i \in RotationsOf(call[w].id) :
                        /\ rotLog[i].new = call[w].suffix
                        /\ LastName(FileName, rotLog[i].old) \in DOMAIN dir)
    /\ [](Cardinality(DOMAIN dir \ {FileName}) = Len(rotLog))
    /\ [](\A i \in 1..Len(rotLog) :
            \A d \in (rotLog[i].old + 1)..(rotLog[i].new - 1) :
                LastName(FileName, d) \notin DOMAIN dir)
    /\ [][\A w \in Writers : (pc[w] = "install" /\ pc'[w] # "install") =>
            /\ logger'[1].timeSuffix = call[w].suffix
            /\ rotLog' = rotLog
            /\ dir' = dir]_vars

\* C18's case: a line was logged on the day of construction, a whole day went
\* by without a call, and the next call has rotated and written: one archive,
\* named after the day of construction, none for the day skipped, and
\* timeSuffix is today's stamp.
C18_Witness ==
    /\ OnlyWriter(1)
    /\ Len(issued) = 2
    /\ issued[1].suffix = Format(0)
    /\ issued[2].suffix = Format(0) + 2
    /\ Len(rotLog) = 1
    /\ rotLog[1].id = issued[2].id
    /\ DOMAIN dir = {FileName, LastName(FileName, Format(0))}
    /\ logger[1].timeSuffix = Format(now)
    /\ logger[1].timeSuffix = Format(0) + 2

\* C19: under fair scheduling every call made returns or the process ends,
\* and no writer stays blocked in Lock for ever; a writer that leaves the
\* rotation action, by the successful swap or by an error return of close,
\* rename or open, leaves the lock free, and so does the re-check that finds
\* the suffix current; and a writer takes the lock at most once in a call,
\* never while holding it.
C19_EveryCallEnds ==
    /\ \A w \in Writers : \A k \in 1..MaxCalls :
          (call[w].id = k) ~> (call[w].id # k \/ ~Running)
    /\ \A w \in Writers :
          (pc[w] = "doRotate") ~> (pc[w] # "doRotate" \/ ~Running)
    /\ [][\A w \in Writers : (InRotation(w) /\ ~InRotation(w)') =>
            /\ pc'[w] \in {"output", "rotfail"}
            /\ logger'[1].mu = 0]_vars
    /\ [][\A w \in Writers : (pc[w] = "doRotate" /\ pc'[w] # "doRotate") =>
            /\ logger[1].mu = 0
            /\ call'[w].locks = 1
            /\ pc'[w] = "output" => logger'[1].mu = 0]_vars
    /\ [](\A w \in Writers : call[w].locks <= 1)

\* C19's case: a writer's rename has failed and its error return has released
\* the lock, so that the other writer, blocked in Lock until then, can go on
\* (the process has not exited yet).
C19_Witness ==
    \E v, w \in Writers :
        /\ Running
        /\ call[v].err = "rename"
        /\ pc[v] = "rotfail"
        /\ logger[1].mu = 0
        /\ pc[w] = "doRotate"
        /\ call[w].locks = 0
        /\ ENABLED DoRotate(w)

====
